---- MODULE Spec2Model ----
(***************************************************************************)
(* A model of src/exporters/stat.ink.ts: the stat.ink catalog client       *)
(* (StatInkAPI), the upload client (postBattle / postCoop), the dedup      *)
(* filter (notExported) and the two mappers (mapBattle, mapCoop).          *)
(*                                                                         *)
(* JavaScript runs the code between two awaits without interruption, so    *)
(* every action below is the code between two suspension points.           *)
(***************************************************************************)
EXTENDS Integers, Sequences, FiniteSets, TLC

\* ---------------------------------------------------------------- bounds
\* Concurrent callers of the catalog getters.
NumCallers == 2
\* Calls of _getCached made in one run, over all callers.
MaxCalls == 3

\* ------------------------------------------------------------- JS values
\* The value of a missing property, and of a variable never assigned.
Undefined == "undefined"

\* JavaScript's ToBoolean. JSON values are written as strings here:
\* undefined, null, false, 0 and "" are falsy, everything else (every array
\* and object, also [] and {}) is truthy.
Falsy == {Undefined, "null", "false", "0", ""}
Truthy(v) == v \notin Falsy

\* ======================================================================
\* StatInkAPI: FETCH_LOCK, cache, _getCached and the four getters
\* ======================================================================

VARIABLES
  cache,        \* StatInkAPI.cache: url -> JSON value, Undefined when absent
  lockHolder,   \* FETCH_LOCK: the caller holding it, 0 when free
  lockQueue,    \* FETCH_LOCK: the callers waiting in acquire(), in order
  pc,           \* each caller's position in _getCached
  url,          \* each caller's argument of _getCached
  resp,         \* each caller's response of fetch.get, once it arrived
  ret,          \* each caller's returned value
  fetchCount,   \* url -> number of network GETs issued for it (history)
  failed,       \* url -> whether a GET for it ended non-2xx or non-table (history)
  calls         \* calls of _getCached made so far (history, bounded)

cacheVars == <<cache, lockHolder, lockQueue, pc, url, resp, ret, fetchCount,
               failed, calls>>


VARIABLES
  game,         \* the session handed to exportGame
  epc,          \* exportGame's position
  body,         \* the post body mapBattle / mapCoop returned
  requests,     \* the network requests issued so far, in order
  postResp,     \* the response of fetch.post, once it arrived
  outcome       \* what exportGame returned or threw

exportVars == <<game, epc, body, requests, postResp, outcome>>

VARIABLES
  dpc,          \* notExported's position
  dType,        \* notExported's argument `type'
  dList,        \* notExported's argument `list'
  uuidVs,       \* the uuids stat.ink lists at /api/v3/s3s/uuid-list
  uuidCoop,     \* the uuids stat.ink lists at /api/v3/salmon/uuid-list
  dOut          \* what notExported returned

dedupVars == <<dpc, dType, dList, uuidVs, uuidCoop, dOut>>

VARIABLES
  coopIn,       \* the CoopInfo handed to mapCoop
  coopOut       \* the body mapCoop returned

coopVars == <<coopIn, coopOut>>

VARIABLES
  vsIn,         \* the VsInfo handed to mapBattle
  vsOut         \* the body mapBattle returned

battleVars == <<vsIn, vsOut>>

VARIABLES
  catalog,          \* the salmon weapon table stat.ink serves
  salmonWeaponMap,  \* StatInkAPI._salmonWeaponMap: name -> key, Undefined when absent
  wpc,              \* each caller's position in getSalmonWeaponMap
  warnings,         \* the names console.warn was called with, in order
  builds            \* times the loop over the catalog ran (history)

weaponVars == <<catalog, salmonWeaponMap, wpc, warnings, builds>>

vars == <<cacheVars, exportVars, dedupVars, coopVars, battleVars, weaponVars>>

\* What each part of the program leaves alone.
exceptCache == <<exportVars, dedupVars, coopVars, battleVars, weaponVars>>
exceptExport == <<cacheVars, dedupVars, coopVars, battleVars, weaponVars>>
exceptDedup == <<cacheVars, exportVars, coopVars, battleVars, weaponVars>>
exceptCoop == <<cacheVars, exportVars, dedupVars, battleVars, weaponVars>>
exceptBattle == <<cacheVars, exportVars, dedupVars, coopVars, weaponVars>>
exceptWeapon == <<exportVars, dedupVars, coopVars, battleVars>>

\* mapCoop and mapBattle have not been called.
NoCall == [called |-> FALSE]
CoopIdle == coopIn = NoCall /\ coopOut = NoCall
BattleIdle == vsIn = NoCall /\ vsOut = NoCall

Callers == 1..NumCallers

\* The urls of getSalmonWeapon, getWeapon, getAbility and getStage.
Categories == {"/api/v3/salmon/weapon?full=1", "/api/v3/weapon?full=1",
               "/api/v3/ability?full=1", "/api/v3/stage"}

\* What a GET answers: a catalog table (a JSON array, two different ones so
\* that a second fetch can be told from the first) or the JSON value null.
Tables == {"tableA", "tableB"}
JsonBodies == Tables \cup {"null"}
Statuses == {200, 299, 404}
NoResp == [status |-> 0, json |-> Undefined]

\* checkResponse: throws unless the status is 200..299.
CheckResponseThrows(status) == (status \div 100) # 2

\* `if (this.cache[url])'
CacheHitNever(u) == FALSE
CacheHit(u) == Truthy(cache[u])

\* FETCH_LOCK.acquire(): the lock is taken when free, else the caller queues.
AcquireNoLock(p) ==
  /\ lockHolder' = p
  /\ lockQueue' = lockQueue
Acquire(p) ==
  IF lockHolder = 0
  THEN /\ lockHolder' = p
       /\ lockQueue' = lockQueue
  ELSE /\ lockHolder' = lockHolder
       /\ lockQueue' = Append(lockQueue, p)

\* release(): the lock goes to the longest waiting caller, if any.
Release ==
  IF lockQueue = <<>>
  THEN /\ lockHolder' = 0
       /\ lockQueue' = lockQueue
  ELSE /\ lockHolder' = Head(lockQueue)
       /\ lockQueue' = Tail(lockQueue)

\* Strings that STAT_INK_DOT or SPLATNET_DOT may occur in are sequences of
\* characters; the two dots are the characters named here.
STAT_INK_DOT == "STAT_INK_DOT"
SPLATNET_DOT == "SPLATNET_DOT"

\* The display names of the salmon weapon table, and with them the names
\* _getAliasName adds: the keys _salmonWeaponMap may hold.
DisplayNames == {<<"a">>, <<"b", STAT_INK_DOT, "c">>, <<"b", SPLATNET_DOT, "c">>}

\* `_salmonWeaponMap = new Map()'; getSalmonWeaponMap has not been called.
WeaponMapIdle ==
  /\ catalog = <<>>
  /\ salmonWeaponMap = [n \in DisplayNames |-> Undefined]
  /\ wpc = [p \in Callers |-> "idle"]
  /\ warnings = <<>>
  /\ builds = 0

\* exportGame has not been called.
\* notExported has not been called; stat.ink lists nothing.
DedupIdle ==
  /\ dpc = "idle"
  /\ dType = Undefined
  /\ dList = <<>>
  /\ uuidVs = {}
  /\ uuidCoop = {}
  /\ dOut = <<>>

NoGame == [type |-> "none"]
NoBody == [kind |-> "none"]
NoOutcome == [status |-> "none", error |-> "", url |-> Undefined]
NoPostResp == [status |-> 0, json |-> [kind |-> "none"]]
ExportIdle ==
  /\ game = NoGame
  /\ epc = "idle"
  /\ body = NoBody
  /\ requests = <<>>
  /\ postResp = NoPostResp
  /\ outcome = NoOutcome

\* A client just constructed, no call made.
CacheIdle ==
  /\ cache = [u \in Categories |-> Undefined]
  /\ lockHolder = 0
  /\ lockQueue = <<>>
  /\ pc = [p \in Callers |-> "idle"]
  /\ url = [p \in Callers |-> Undefined]
  /\ resp = [p \in Callers |-> NoResp]
  /\ ret = [p \in Callers |-> Undefined]
  /\ fetchCount = [u \in Categories |-> 0]
  /\ failed = [u \in Categories |-> FALSE]
  /\ calls = 0

InitCache ==
  /\ CacheIdle
  /\ ExportIdle
  /\ DedupIdle
  /\ CoopIdle
  /\ BattleIdle
  /\ WeaponMapIdle

\* getStage() / getWeapon() / getSalmonWeapon() / getAbility(): the call of
\* _getCached(u) up to `await this.FETCH_LOCK.acquire()'.
GetCached(p, u) ==
  /\ pc[p] = "idle"
  /\ calls < MaxCalls
  /\ calls' = calls + 1
  /\ url' = [url EXCEPT ![p] = u]
  /\ pc' = [pc EXCEPT ![p] = "acquire"]
  /\ Acquire(p)
  /\ UNCHANGED <<cache, resp, ret, fetchCount, failed>>

\* acquire() resolved: the cache is read; a hit returns through `finally',
\* a miss issues the GET.
Enter(p) ==
  /\ pc[p] = "acquire"
  /\ lockHolder = p
  /\ IF CacheHit(url[p])
     THEN /\ ret' = [ret EXCEPT ![p] = cache[url[p]]]
          /\ pc' = [pc EXCEPT ![p] = "returned"]
          /\ Release
          /\ UNCHANGED fetchCount
     ELSE /\ fetchCount' = [fetchCount EXCEPT ![url[p]] = @ + 1]
          /\ pc' = [pc EXCEPT ![p] = "fetching"]
          /\ UNCHANGED <<ret, lockHolder, lockQueue>>
  /\ UNCHANGED <<cache, url, resp, failed, calls>>

\* fetch.get resolves with the server's answer.
FetchGet(p, status, json) ==
  /\ pc[p] = "fetching"
  /\ resp' = [resp EXCEPT ![p] = [status |-> status, json |-> json]]
  /\ pc' = [pc EXCEPT ![p] = "response"]
  /\ UNCHANGED <<cache, lockHolder, lockQueue, url, ret, fetchCount, failed,
                 calls>>

\* checkResponse threw: `finally' releases, the APIError propagates.
FinishThrowNoRelease(p) ==
  /\ pc' = [pc EXCEPT ![p] = "thrown"]
  /\ failed' = [failed EXCEPT ![url[p]] = TRUE]
  /\ UNCHANGED <<cache, ret, lockHolder, lockQueue>>
FinishThrow(p) ==
  /\ pc' = [pc EXCEPT ![p] = "thrown"]
  /\ failed' = [failed EXCEPT ![url[p]] = TRUE]
  /\ Release
  /\ UNCHANGED <<cache, ret>>

\* checkResponse passed: the JSON is stored and returned, `finally' releases.
FinishStore(p) ==
  /\ cache' = [cache EXCEPT ![url[p]] = resp[p].json]
  /\ ret' = [ret EXCEPT ![p] = resp[p].json]
  /\ pc' = [pc EXCEPT ![p] = "returned"]
  /\ failed' = [failed EXCEPT ![url[p]] = @ \/ resp[p].json \notin Tables]
  /\ Release

Finish(p) ==
  /\ pc[p] = "response"
  /\ IF CheckResponseThrows(resp[p].status)
     THEN FinishThrow(p)
     ELSE FinishStore(p)
  /\ resp' = [resp EXCEPT ![p] = NoResp]
  /\ UNCHANGED <<url, fetchCount, calls>>

\* The caller has its table (or its error) and may call again.
Settle(p) ==
  /\ pc[p] \in {"returned", "thrown"}
  /\ pc' = [pc EXCEPT ![p] = "idle"]
  /\ ret' = [ret EXCEPT ![p] = Undefined]
  /\ url' = [url EXCEPT ![p] = Undefined]
  /\ UNCHANGED <<cache, lockHolder, lockQueue, resp, fetchCount, failed, calls>>

NextCache ==
  \/ \E p \in Callers, u \in Categories : GetCached(p, u) /\ UNCHANGED exceptCache
  \/ \E p \in Callers : Enter(p) /\ UNCHANGED exceptCache
  \/ \E p \in Callers, s \in Statuses, j \in JsonBodies :
       FetchGet(p, s, j) /\ UNCHANGED exceptCache
  \/ \E p \in Callers : Finish(p) /\ UNCHANGED exceptCache
  \/ \E p \in Callers : Settle(p) /\ UNCHANGED exceptCache


Spec == InitCache /\ [][NextCache]_vars

\* ----------------------------------------------------------------------
\* Claims about the catalog client
\* ----------------------------------------------------------------------

\* A caller is between its acquire() and its release().
InCritical(p) == pc[p] \in {"fetching", "response"}

C1_State ==
  \A u \in Categories :
    ~failed[u] =>
      /\ fetchCount[u] <= 1
      /\ \A p \in Callers :
           (pc[p] = "returned" /\ url[p] = u) =>
             /\ ret[p] \in Tables
             /\ ret[p] = cache[u]
             /\ fetchCount[u] = 1
C1_Step ==
  \A u \in Categories :
    cache[u] \in Tables =>
      /\ cache'[u] = cache[u]
      /\ fetchCount'[u] = fetchCount[u]
\* C1: while the fetches of a category succeed (2xx with a table), the
\* category is fetched over the network at most once; every call that
\* returns gives the table that fetch stored; once a table is stored it is
\* never replaced and no further GET is issued for its category.
C1_FetchedOnce == [](C1_State) /\ [][C1_Step]_vars
\* Two callers have both returned the same category's table after one GET.
C1_Witness ==
  \E p, q \in Callers, u \in Categories :
    /\ p # q
    /\ pc[p] = "returned" /\ pc[q] = "returned"
    /\ url[p] = u /\ url[q] = u
    /\ ret[p] = ret[q] /\ ret[p] \in Tables
    /\ fetchCount[u] = 1

\* C2: at most one caller is between its acquire() and its release(), that
\* caller holds FETCH_LOCK, and every other caller that has called but not
\* finished waits in the lock's queue, whatever the categories are.
C2_SingleFlight ==
  /\ \A p, q \in Callers : (InCritical(p) /\ InCritical(q)) => p = q
  /\ \A p \in Callers : InCritical(p) => lockHolder = p
  /\ \A p \in Callers :
       (pc[p] = "acquire" /\ lockHolder # p) =>
         \E i \in 1..Len(lockQueue) : lockQueue[i] = p
\* One caller's GET is in flight while a call for another category waits.
C2_Witness ==
  \E p, q \in Callers :
    /\ pc[p] = "fetching"
    /\ pc[q] = "acquire"
    /\ url[p] # url[q]
    /\ lockQueue = <<q>>

C3_Step ==
  /\ \A p \in Callers :
       (pc[p] = "response" /\ CheckResponseThrows(resp[p].status)
          /\ pc'[p] # "response") =>
         /\ pc'[p] = "thrown"
         /\ cache' = cache
         /\ cache[url[p]] \notin Tables
         /\ lockHolder' # p
         /\ lockQueue # <<>> => lockHolder' = Head(lockQueue)
  /\ \A p \in Callers :
       (pc[p] = "acquire" /\ pc'[p] # "acquire"
          /\ cache[url[p]] \notin Tables) =>
         /\ pc'[p] = "fetching"
         /\ fetchCount'[url[p]] = fetchCount[url[p]] + 1
\* C3: a non-2xx answer makes the call throw, leaves the cache as it was
\* (no table in that category's slot), releases FETCH_LOCK to the next
\* waiting caller, and a call that then enters with the slot still empty
\* issues a new GET; the lock is never left free with callers waiting.
C3_FailureRetries ==
  [][C3_Step]_vars /\ [](lockHolder = 0 => lockQueue = <<>>)
\* A call threw, and the call that waited behind it refetches the category.
C3_Witness ==
  \E p, q \in Callers :
    /\ pc[p] = "thrown"
    /\ pc[q] = "fetching"
    /\ url[p] = url[q]
    /\ fetchCount[url[q]] = 2

\* ======================================================================
\* StatInkExporter.exportGame: mapBattle / mapCoop, then postBattle / postCoop
\* ======================================================================

\* Gears of the mapped players (every gear has one primary ability).
MaxGears == 2

\* A function's completion: the value it returns, or the error it throws.
Return(v) == [err |-> "", val |-> v]
Throw(e) == [err |-> e, val |-> Undefined]
Threw(r) == r.err # ""

\* vsMode.mode, bankaraMatch?.mode (Undefined: no bankaraMatch) and
\* b64Number(vsMode.id) of a session.
LobbyInputs ==
  [mode : {"REGULAR", "PRIVATE", "X_MATCH", "LEAGUE"},
   bankaraMode : {Undefined}, modeId : {1}]
  \cup [mode : {"BANKARA"}, bankaraMode : {"OPEN", "CHALLENGE", Undefined},
        modeId : {51}]
  \cup [mode : {"FEST"}, bankaraMode : {Undefined}, modeId : {6, 7, 8, 9}]

mapLobby(d) ==
  IF d.mode = "REGULAR" THEN Return("regular")
  ELSE IF d.mode = "BANKARA" THEN
    LET mode == IF d.bankaraMode = Undefined THEN "UNKNOWN" ELSE d.bankaraMode
        result == CASE mode = "OPEN" -> "bankara_open"
                    [] mode = "CHALLENGE" -> "bankara_challenge"
                    [] OTHER -> ""
    IN IF Truthy(result) THEN Return(result) ELSE Throw("Unknown vsMode")
  ELSE IF d.mode = "PRIVATE" THEN Return("private")
  ELSE IF d.mode = "FEST" THEN
    IF d.modeId = 6 THEN Return("splatfest_open")
    ELSE IF d.modeId = 7 THEN Return("splatfest_challenge")
    ELSE IF d.modeId = 8 THEN Return("splatfest_open")
    ELSE Throw("Unknown vsMode")
  ELSE IF d.mode = "X_MATCH" THEN Return("xmatch")
  ELSE Throw("Unknown vsMode")

\* The stage table of stat.ink, and b64Number(vsStage.id).toString().
StageCatalog == {[key |-> "yunohana", aliases |-> {"1", "Yunohana"}],
                 [key |-> "gonzui", aliases |-> {"2", "Gonzui"}]}
StageIds == {"1", "2", "99"}

mapStageLenient(id) ==
  LET found == {e \in StageCatalog : id \in e.aliases}
  IN IF found = {} THEN Return(Undefined)
     ELSE Return((CHOOSE e \in found : TRUE).key)
mapStage(id) ==
  LET found == {e \in StageCatalog : id \in e.aliases}
  IN IF found = {} THEN Throw("Unknown stage")
     ELSE Return((CHOOSE e \in found : TRUE).key)

\* The ability table of stat.ink (key, Object.values(name)) and the names a
\* session's gears carry.
AbilityCatalog ==
  {[key |-> "ink_saver_main", names |-> {"Ink Saver (Main)", "Encre principal"}],
   [key |-> "swim_speed_up", names |-> {"Swim Speed Up"}]}
AbilityNames == {"Ink Saver (Main)", "Swim Speed Up", "Unknown power"}

\* mapGears' mapAbility: the key, or null when no entry has the name.
mapAbility(name) ==
  LET found == {a \in AbilityCatalog : name \in a.names}
  IN IF found = {} THEN "null" ELSE (CHOOSE a \in found : TRUE).key

\* mapGears' mapGear on the primary ability.
mapGear(primary) ==
  IF Truthy(mapAbility(primary)) THEN Return(mapAbility(primary))
  ELSE Throw("Unknown ability")

\* The gears are mapped in order; the first that throws decides.
RECURSIVE mapGears(_)
mapGears(primaries) ==
  IF primaries = <<>> THEN Return(<<>>)
  ELSE LET g == mapGear(Head(primaries))
           rest == mapGears(Tail(primaries))
       IN IF Threw(g) THEN g
          ELSE IF Threw(rest) THEN rest
          ELSE Return(<<g.val>> \o rest.val)

\* A coop weapon: its name and whether its image is the question mark.
\* _salmonWeaponMap as built from the salmon weapon table.
SalmonWeaponMap == [n \in {"Splattershot", "Sploosh-o-matic"} |->
                      IF n = "Splattershot" THEN "52gal" ELSE "bold"]
CoopWeapons == [name : {"Splattershot", "Random"}, random : BOOLEAN]

mapCoopWeapon(w) ==
  IF w.name \in DOMAIN SalmonWeaponMap THEN Return(SalmonWeaponMap[w.name])
  ELSE IF w.random THEN Return("null")
  ELSE Throw("Weapon not found")

\* A special weapon by the hash of its image: one COOP_SPECIAL_MAP knows, the
\* question mark (isRandom), or another one.
SpecialImages == {"known", "random", "other"}

mapSpecial(image) ==
  IF image = "known" THEN Return("nicedama")
  ELSE IF image = "random" THEN Return(Undefined)
  ELSE Throw("Special not found")

GearSeqs == UNION {[1..n -> AbilityNames] : n \in 1..MaxGears}

VsGames ==
  [type : {"VsInfo"}, hasSelf : BOOLEAN, otherTeams : 0..2,
   lobby : LobbyInputs, stageId : StageIds, primaries : GearSeqs]

\* A coop session: the specials used in its waves (Undefined: none), the
\* player's special (Undefined: specialWeapon is null) and weapon.
CoopGames ==
  [type : {"CoopInfo"}, waveSpecial : SpecialImages \cup {Undefined},
   special : SpecialImages \cup {Undefined}, weapon : CoopWeapons]

Games == VsGames \cup CoopGames

\* How a catalog getter ends in a mapper: from the cache, by a GET that
\* succeeds, or by a GET that checkResponse rejects.
CatalogOutcomes == {"cached", "fetched", "rejected"}

Get(path, c) ==
  IF c = "cached" THEN requests
  ELSE Append(requests, [method |-> "GET", path |-> path])

\* exportGame throws e.
Raise(e) ==
  /\ epc' = "raised"
  /\ outcome' = [status |-> "threw", error |-> e, url |-> Undefined]
  /\ body' = body

\* exportGame(game) is called.
ExportGame ==
  /\ epc = "idle"
  /\ \E g \in Games :
       /\ game' = g
       /\ epc' = IF g.type = "VsInfo" THEN "mapBattle" ELSE "mapCoop"
  /\ UNCHANGED <<body, requests, postResp, outcome>>

\* mapBattle up to `await this.mapStage(vsDetail)': self, otherTeams, lobby,
\* then getStage() and the search of the stage.
MapBattleStage(c) ==
  /\ epc = "mapBattle"
  /\ IF ~game.hasSelf THEN Raise("Self not found") /\ UNCHANGED requests
     ELSE IF game.otherTeams = 0
       THEN Raise("Other teams is empty") /\ UNCHANGED requests
     ELSE IF Threw(mapLobby(game.lobby))
       THEN Raise(mapLobby(game.lobby).err) /\ UNCHANGED requests
     ELSE /\ requests' = Get("/api/v3/stage", c)
          /\ IF c = "rejected" THEN Raise("APIError")
             ELSE IF Threw(mapStage(game.stageId))
               THEN Raise(mapStage(game.stageId).err)
             ELSE /\ epc' = "mapPlayer"
                  /\ UNCHANGED <<body, outcome>>
  /\ UNCHANGED <<game, postResp>>

\* mapBattle's mapPlayer calls: getAbility() and mapGears; then the body.
MapBattlePlayers(c) ==
  /\ epc = "mapPlayer"
  /\ requests' = Get("/api/v3/ability?full=1", c)
  /\ IF c = "rejected" THEN Raise("APIError")
     ELSE IF Threw(mapGears(game.primaries))
       THEN Raise(mapGears(game.primaries).err)
     ELSE /\ body' = [kind |-> "battle",
                      lobby |-> mapLobby(game.lobby).val,
                      stage |-> mapStage(game.stageId).val,
                      gears |-> mapGears(game.primaries).val]
          /\ epc' = "postBattle"
          /\ UNCHANGED outcome
  /\ UNCHANGED <<game, postResp>>

\* mapCoop: mapWave's and mapCoopPlayer's mapSpecial, then
\* getSalmonWeaponMap() and mapCoopWeapon; then the body.
MapCoop(c) ==
  /\ epc = "mapCoop"
  /\ IF game.waveSpecial # Undefined /\ Threw(mapSpecial(game.waveSpecial))
       THEN Raise(mapSpecial(game.waveSpecial).err) /\ UNCHANGED requests
     ELSE IF game.special # Undefined /\ Threw(mapSpecial(game.special))
       THEN Raise(mapSpecial(game.special).err) /\ UNCHANGED requests
     ELSE /\ requests' = Get("/api/v3/salmon/weapon?full=1", c)
          /\ IF c = "rejected" THEN Raise("APIError")
             ELSE IF Threw(mapCoopWeapon(game.weapon))
               THEN Raise(mapCoopWeapon(game.weapon).err)
             ELSE /\ body' = [kind |-> "coop",
                              special |-> IF game.special = Undefined
                                            THEN Undefined
                                            ELSE mapSpecial(game.special).val,
                              weapons |-> <<mapCoopWeapon(game.weapon).val>>]
                  /\ epc' = "postCoop"
                  /\ UNCHANGED outcome
  /\ UNCHANGED <<game, postResp>>

\* postBattle / postCoop: fetch.post is issued with the encoded body.
Post ==
  /\ epc \in {"postBattle", "postCoop"}
  /\ requests' = Append(requests,
       [method |-> "POST",
        path |-> IF epc = "postBattle" THEN "/api/v3/battle"
                 ELSE "/api/v3/salmon"])
  /\ epc' = "posted"
  /\ UNCHANGED <<game, body, postResp, outcome>>

\* What the server may answer to a POST: a body that is no JSON, the JSON
\* value null, or an object with or without `error' and `url'.
PostStatuses == {200, 201, 204, 400, 500}
PostBodies ==
  [kind : {"not json", "null"}, error : {Undefined}, url : {Undefined}]
  \cup [kind : {"object"}, error : {Undefined, "null", "", "Bad Request"},
        url : {Undefined, "https://stat.ink/b/1"}]

\* `await resp.json().catch(() => ({}))'
DecodeJson(b) ==
  IF b.kind = "not json"
  THEN [kind |-> "object", error |-> Undefined, url |-> Undefined]
  ELSE b

\* postBattle / postCoop after fetch.post resolved: the json it returns, or
\* what it throws. Reading `.error' of null is a TypeError.
PostResultAny2xx(status, b) ==
  LET json == DecodeJson(b)
  IN IF status \div 100 # 2 THEN Throw("APIError")
     ELSE IF json.kind = "null" THEN Throw("TypeError")
     ELSE IF Truthy(json.error) THEN Throw("APIError")
     ELSE Return(json)
PostResult(status, b) ==
  LET json == DecodeJson(b)
  IN IF status # 200 /\ status # 201 THEN Throw("APIError")
     ELSE IF json.kind = "null" THEN Throw("TypeError")
     ELSE IF Truthy(json.error) THEN Throw("APIError")
     ELSE Return(json)

\* fetch.post resolves; exportGame returns {status, url} or throws.
PostResponse(status, b) ==
  /\ epc = "posted"
  /\ postResp' = [status |-> status, json |-> b]
  /\ IF Threw(PostResult(status, b))
     THEN Raise(PostResult(status, b).err)
     ELSE /\ outcome' = [status |-> "success", error |-> "",
                         url |-> PostResult(status, b).val.url]
          /\ epc' = "returned"
          /\ body' = body
  /\ UNCHANGED <<game, requests>>

InitExport ==
  /\ ExportIdle
  /\ CacheIdle
  /\ DedupIdle
  /\ CoopIdle
  /\ BattleIdle
  /\ WeaponMapIdle

NextExport ==
  \/ ExportGame /\ UNCHANGED exceptExport
  \/ \E c \in CatalogOutcomes : MapBattleStage(c) /\ UNCHANGED exceptExport
  \/ \E c \in CatalogOutcomes : MapBattlePlayers(c) /\ UNCHANGED exceptExport
  \/ \E c \in CatalogOutcomes : MapCoop(c) /\ UNCHANGED exceptExport
  \/ Post /\ UNCHANGED exceptExport
  \/ \E s \in PostStatuses, b \in PostBodies :
       PostResponse(s, b)
         /\ UNCHANGED exceptExport

SpecExport == InitExport /\ [][NextExport]_vars

\* ----------------------------------------------------------------------
\* Claims about exportGame and the upload client
\* ----------------------------------------------------------------------

HasPost == \E i \in 1..Len(requests) : requests[i].method = "POST"

\* The sessions the mappers cannot map, stated on the session itself: self
\* not found, no opposing team, unknown lobby, unknown stage, an unknown
\* primary ability, an unknown special or weapon whose image is not the
\* question mark.
UnknownLobby(l) ==
  \/ l.mode \notin {"REGULAR", "BANKARA", "PRIVATE", "FEST", "X_MATCH"}
  \/ l.mode = "BANKARA" /\ l.bankaraMode \notin {"OPEN", "CHALLENGE"}
  \/ l.mode = "FEST" /\ l.modeId \notin {6, 7, 8}
Unmappable(g) ==
  IF g.type = "VsInfo"
  THEN \/ ~g.hasSelf
       \/ g.otherTeams = 0
       \/ UnknownLobby(g.lobby)
       \/ \A e \in StageCatalog : g.stageId \notin e.aliases
       \/ \E i \in 1..Len(g.primaries) :
            \A a \in AbilityCatalog : g.primaries[i] \notin a.names
  ELSE \/ g.waveSpecial = "other"
       \/ g.special = "other"
       \/ g.weapon.name \notin DOMAIN SalmonWeaponMap /\ ~g.weapon.random

\* C4: a POST is on the wire only when the mapper has returned a body, all
\* of whose fields are resolved, for a session that is mappable; a session
\* that is not mappable ends in a throw and never in a POST.
C4_NoPostWithoutBody ==
  /\ HasPost =>
       /\ body.kind \in {"battle", "coop"}
       /\ ~Unmappable(game)
       /\ body.kind = "battle" =>
            /\ body.stage \in {e.key : e \in StageCatalog}
            /\ body.lobby # Undefined
            /\ Len(body.gears) = Len(game.primaries)
  /\ (game.type # "none" /\ Unmappable(game)) =>
       /\ ~HasPost
       /\ epc \in {"mapBattle", "mapPlayer", "mapCoop", "raised"}
       /\ epc = "raised" => outcome.error \notin {"", "TypeError"}
\* The scenario of the spec: lobby and teams are fine, the stage table was
\* fetched, the stage id is in no alias list: a throw, one GET, no POST.
C4_Witness ==
  /\ epc = "raised"
  /\ outcome.error = "Unknown stage"
  /\ game.hasSelf /\ game.otherTeams > 0
  /\ Len(requests) = 1
  /\ ~HasPost

\* The POST was answered and postBattle / postCoop has returned or thrown.
Answered == postResp.status # 0

\* C6 as the spec states it: success exactly for 200/201 with no error field
\* in the decoded JSON, an API error otherwise.
C6_AsStated ==
  Answered =>
    IF postResp.status \in {200, 201}
       /\ DecodeJson(postResp.json).error = Undefined
    THEN outcome.status = "success"
    ELSE outcome.status = "threw" /\ outcome.error = "APIError"

\* C6, amended: postBattle / postCoop return normally exactly when the
\* status is 200 or 201 and the decoded JSON (an undecodable body counts as
\* the empty object) is not null and its error property is absent or falsy;
\* exportGame then returns {status: "success", url: json.url}. Every other
\* answer throws: a TypeError for 200/201 with the body null, an API error
\* for the rest, among them 204 and a truthy error under 200.
C6_TruthyErrorOnly ==
  Answered =>
    LET json == DecodeJson(postResp.json)
        statusOk == postResp.status \in {200, 201}
    IN IF statusOk /\ json.kind = "object" /\ json.error \in Falsy
       THEN /\ epc = "returned"
            /\ outcome = [status |-> "success", error |-> "", url |-> json.url]
       ELSE /\ epc = "raised"
            /\ outcome.status = "threw"
            /\ outcome.error =
                 IF statusOk /\ json.kind = "null" THEN "TypeError"
                 ELSE "APIError"
\* 200 with {error: "", url}: exportGame reports success.
C6_Witness ==
  /\ postResp.status = 200
  /\ postResp.json.kind = "object"
  /\ postResp.json.error = ""
  /\ outcome.status = "success"
  /\ outcome.url = "https://stat.ink/b/1"

\* ======================================================================
\* StatInkExporter.notExported and StatInkAPI.uuidList
\* ======================================================================

\* Length of the candidate list.
MaxList == 2
\* Uuids stat.ink lists per endpoint.
MaxUploaded == 2

\* The candidate ids, and the three identifiers derived from one: gameId,
\* s3siGameId and s3sCoopGameId are deterministic, and written here as the
\* scheme paired with the id.
CandidateIds == {"game1", "game2"}
gameId(id) == <<"s3s", id>>
s3siGameId(id) == <<"s3si", id>>
s3sCoopGameId(id) == <<"s3sCoop", id>>

Uuids == {gameId(id) : id \in CandidateIds}
         \cup {s3siGameId(id) : id \in CandidateIds}
         \cup {s3sCoopGameId(id) : id \in CandidateIds}
UuidLists == {l \in SUBSET Uuids : Cardinality(l) <= MaxUploaded}
CandidateLists == UNION {[1..n -> CandidateIds] : n \in 0..MaxList}

\* The loop of notExported; `uuid.includes(x)' is membership in the list.
notExportedCurrentSchemeOnly(uuid, list) ==
  SelectSeq(list, LAMBDA id : gameId(id) \notin uuid)
notExportedFilter(uuid, list) ==
  SelectSeq(list, LAMBDA id : /\ gameId(id) \notin uuid
                              /\ s3siGameId(id) \notin uuid
                              /\ s3sCoopGameId(id) \notin uuid)

\* uuidList: the endpoint by session type.
uuidListOf(type) == IF type = "VsInfo" THEN uuidVs ELSE uuidCoop

\* stat.ink holds some uploads; notExported has not been called.
InitDedup ==
  /\ uuidVs \in UuidLists
  /\ uuidCoop \in UuidLists
  /\ dpc = "idle"
  /\ dType = Undefined
  /\ dList = <<>>
  /\ dOut = <<>>
  /\ CacheIdle
  /\ ExportIdle
  /\ CoopIdle
  /\ BattleIdle
  /\ WeaponMapIdle

\* notExported({type, list}) up to `await fetch.get' in uuidList.
NotExported ==
  /\ dpc = "idle"
  /\ \E type \in {"VsInfo", "CoopInfo"}, list \in CandidateLists :
       /\ dType' = type
       /\ dList' = list
  /\ dpc' = "uuidList"
  /\ UNCHANGED <<uuidVs, uuidCoop, dOut>>

\* The GET is answered: checkResponse, the Array.isArray test (stat.ink
\* answers an object with a message when it refuses), then the filter.
UuidListResponse(status, isArray) ==
  /\ dpc = "uuidList"
  /\ IF CheckResponseThrows(status) \/ ~isArray
     THEN /\ dpc' = "threw"
          /\ dOut' = dOut
     ELSE /\ dpc' = "returned"
          /\ dOut' = notExportedFilter(uuidListOf(dType), dList)
  /\ UNCHANGED <<dType, dList, uuidVs, uuidCoop>>

NextDedup ==
  \/ NotExported /\ UNCHANGED exceptDedup
  \/ \E s \in Statuses, a \in BOOLEAN :
       UuidListResponse(s, a) /\ UNCHANGED exceptDedup

SpecDedup == InitDedup /\ [][NextDedup]_vars

\* ----------------------------------------------------------------------
\* Claims about notExported
\* ----------------------------------------------------------------------

\* The positions of the candidates none of whose three identifiers is in
\* the list fetched for the session type.
NotUploadedAt ==
  {i \in 1..Len(dList) :
     {<<"s3s", dList[i]>>, <<"s3si", dList[i]>>, <<"s3sCoop", dList[i]>>}
       \cap (IF dType = "VsInfo" THEN uuidVs ELSE uuidCoop) = {}}

\* The k-th smallest position in a set of positions.
KthOf(S, k) == CHOOSE i \in S : Cardinality({j \in S : j <= i}) = k

C5_State ==
  dpc = "returned" =>
    /\ Len(dOut) = Cardinality(NotUploadedAt)
    /\ \A k \in 1..Len(dOut) : dOut[k] = dList[KthOf(NotUploadedAt, k)]
C5_Step ==
  /\ uuidVs' = uuidVs
  /\ uuidCoop' = uuidCoop
  /\ dpc # "idle" => dList' = dList
\* C5: notExported returns the candidates, in input order, none of whose
\* three identifiers is in the uuid list of the session type, and no other;
\* the candidate list and the uploaded lists are left as they were.
C5_NotExportedExact == [](C5_State) /\ [][C5_Step]_vars
\* game1 was uploaded under the s3si scheme only and is dropped; game2,
\* uploaded as a coop session only, is kept in a versus query.
C5_Witness ==
  /\ dpc = "returned"
  /\ dType = "VsInfo"
  /\ dList = <<"game1", "game2">>
  /\ uuidVs = {<<"s3si", "game1">>}
  /\ uuidCoop = {<<"s3s", "game2">>}
  /\ dOut = <<"game2">>

\* ======================================================================
\* StatInkExporter.mapCoop: clear_waves, title_before, fail_reason and the
\* waves' danger_rate
\* ======================================================================

\* Wave results of one session.
MaxWaveResults == 4

\* null / undefined in a field that otherwise holds a number.
NullNum == -999
\* nonNullable, on a number and on a string.
nonNullable(v) == v # NullNum
nonNullableStr(v) == v # Undefined

COOP_POINT_MAP(clear_waves) ==
  CASE clear_waves = 0 -> -20
    [] clear_waves = 1 -> -10
    [] clear_waves = 2 -> 0
    [] clear_waves = 3 -> 20
    [] OTHER -> NullNum

\* Number.prototype.toString and parseInt on the grade ids, -1 included.
GradeNumbers == -1..8
toString(n) ==
  CASE n = -1 -> "-1" [] n = 0 -> "0" [] n = 1 -> "1" [] n = 2 -> "2"
    [] n = 3 -> "3" [] n = 4 -> "4" [] n = 5 -> "5" [] n = 6 -> "6"
    [] n = 7 -> "7" [] n = 8 -> "8"
parseInt(str) == CHOOSE n \in GradeNumbers : toString(n) = str

maxWaves(rule) == IF rule = "TEAM_CONTEST" THEN 5 ELSE 3

\* clear_waves of mapCoop.
clearWavesCountOnly(detail) ==
  IF Len(detail.waveResults) > 0
  THEN Cardinality({i \in 1..Len(detail.waveResults) :
                      detail.waveResults[i].waveNumber
                        < maxWaves(detail.rule) + 1})
       + (IF detail.resultWave = 0 THEN 1 ELSE 0)
  ELSE 0
clearWavesNoFilter(detail) ==
  IF Len(detail.waveResults) > 0
  THEN Len(detail.waveResults)
       - 1 + (IF detail.resultWave = 0 THEN 1 ELSE 0)
  ELSE 0
clearWaves(detail) ==
  IF Len(detail.waveResults) > 0
  THEN Cardinality({i \in 1..Len(detail.waveResults) :
                      detail.waveResults[i].waveNumber
                        < maxWaves(detail.rule) + 1})
       - 1 + (IF detail.resultWave = 0 THEN 1 ELSE 0)
  ELSE 0

\* title_before and title_exp_before of mapCoop. title_after is
\* b64Number(afterGrade.id).toString(), or Undefined without afterGrade.
Unset == [title |-> Undefined, exp |-> NullNum]
titleBeforeKeepsTitleAt40(info) ==
  LET title_after == info.detail.afterGrade
      title_exp_after == info.detail.afterGradePoint
      expDiff == COOP_POINT_MAP(clearWaves(info.detail))
  IN IF info.gradeBefore.present
     THEN [title |-> info.gradeBefore.grade, exp |-> info.gradeBefore.gradePoint]
     ELSE IF ~(nonNullableStr(title_after) /\ nonNullable(title_exp_after)
                 /\ nonNullable(expDiff))
       THEN Unset
     ELSE IF title_exp_after = 40 /\ expDiff = 20
       THEN [title |-> title_after, exp |-> NullNum]
     ELSE IF title_exp_after = 40 /\ expDiff < 0 /\ title_after # "8"
       THEN [title |-> title_after, exp |-> NullNum]
     ELSE IF title_exp_after = 999 /\ expDiff # 0
       THEN [title |-> title_after, exp |-> NullNum]
     ELSE IF title_exp_after - expDiff >= 0
       THEN [title |-> title_after, exp |-> title_exp_after - expDiff]
     ELSE [title |-> toString(parseInt(title_after) - 1), exp |-> NullNum]
titleBefore(info) ==
  LET title_after == info.detail.afterGrade
      title_exp_after == info.detail.afterGradePoint
      expDiff == COOP_POINT_MAP(clearWaves(info.detail))
  IN IF info.gradeBefore.present
     THEN [title |-> info.gradeBefore.grade, exp |-> info.gradeBefore.gradePoint]
     ELSE IF ~(nonNullableStr(title_after) /\ nonNullable(title_exp_after)
                 /\ nonNullable(expDiff))
       THEN Unset
     ELSE IF title_exp_after = 40 /\ expDiff = 20
       THEN Unset
     ELSE IF title_exp_after = 40 /\ expDiff < 0 /\ title_after # "8"
       THEN Unset
     ELSE IF title_exp_after = 999 /\ expDiff # 0
       THEN [title |-> title_after, exp |-> NullNum]
     ELSE IF title_exp_after - expDiff >= 0
       THEN [title |-> title_after, exp |-> title_exp_after - expDiff]
     ELSE [title |-> toString(parseInt(title_after) - 1), exp |-> NullNum]

\* fail_reason of mapCoop.
failReason(detail) ==
  LET waves == detail.waveResults
  IN IF clearWaves(detail) # maxWaves(detail.rule) /\ Len(waves) > 0
        /\ waves[Len(waves)].teamDeliverCount >= waves[Len(waves)].deliverNorm
     THEN "wipe_out"
     ELSE "null"

\* added_percent of the danger_rate loop; `delivered >= quota * 1.5' is
\* 2 * delivered >= 3 * quota.
addedPercentTenForTwo(num_players, quota, delivered) ==
  IF num_players = 4 THEN
    IF delivered >= quota * 2 THEN 60
    ELSE IF 2 * delivered >= quota * 3 THEN 30 ELSE 0
  ELSE IF num_players = 3 THEN
    IF delivered >= quota * 2 THEN 40
    ELSE IF 2 * delivered >= quota * 3 THEN 20 ELSE 0
  ELSE IF num_players = 2 THEN
    IF delivered >= quota * 2 THEN 20
    ELSE IF 2 * delivered >= quota * 3 THEN 10 ELSE 0
  ELSE IF num_players = 1 THEN
    IF delivered >= quota * 2 THEN 10
    ELSE IF 2 * delivered >= quota * 3 THEN 5 ELSE 0
  ELSE 0
addedPercent(num_players, quota, delivered) ==
  IF num_players = 4 THEN
    IF delivered >= quota * 2 THEN 60
    ELSE IF 2 * delivered >= quota * 3 THEN 30 ELSE 0
  ELSE IF num_players = 3 THEN
    IF delivered >= quota * 2 THEN 40
    ELSE IF 2 * delivered >= quota * 3 THEN 20 ELSE 0
  ELSE IF num_players = 2 THEN
    IF delivered >= quota * 2 THEN 20
    ELSE IF 2 * delivered >= quota * 3 THEN 5 ELSE 0
  ELSE IF num_players = 1 THEN
    IF delivered >= quota * 2 THEN 10
    ELSE IF 2 * delivered >= quota * 3 THEN 5 ELSE 0
  ELSE 0

\* mapWave: danger_rate is null, filled later.
mapWave(wave) ==
  [golden_quota |-> wave.deliverNorm,
   golden_delivered |-> wave.teamDeliverCount,
   danger_rate |-> NullNum]

\* The danger_rate loop over result.waves: `done' are the waves already
\* filled (lastWave is the last of them), `todo' the ones to come.
RECURSIVE fillDangerRate(_, _, _)
fillDangerRate(done, todo, num_players) ==
  IF todo = <<>> THEN done
  ELSE LET haz_level ==
             IF done = <<>> THEN 60
             ELSE LET lastWave == done[Len(done)]
                  IN lastWave.danger_rate
                     + addedPercent(num_players, lastWave.golden_quota,
                                    lastWave.golden_delivered)
       IN fillDangerRate(
            Append(done, [Head(todo) EXCEPT !.danger_rate = haz_level]),
            Tail(todo), num_players)

\* Each count of a player's result ranges over 0..MaxCount.
MaxCount == 1

\* CoopHistoryPlayerResult: the five counts mapCoopPlayer tests, and
\* specialWeapon (Undefined: null, else its image).
CoopPlayerResults ==
  [goldenDeliverCount : 0..MaxCount, deliverCount : 0..MaxCount,
   rescueCount : 0..MaxCount, rescuedCount : 0..MaxCount,
   defeatEnemyCount : 0..MaxCount,
   specialWeapon : {Undefined, "known", "random"},
   weapons : {<<[name |-> "Splattershot", random |-> FALSE]>>}]

\* `[...].every((v) => v === 0) || !specialWeapon'
disconnectedBoth(p) ==
  /\ p.goldenDeliverCount = 0
  /\ p.deliverCount = 0
  /\ p.rescueCount = 0
  /\ p.rescuedCount = 0
  /\ p.defeatEnemyCount = 0
  /\ p.specialWeapon = Undefined
disconnected(p) ==
  \/ /\ p.goldenDeliverCount = 0
     /\ p.deliverCount = 0
     /\ p.rescueCount = 0
     /\ p.rescuedCount = 0
     /\ p.defeatEnemyCount = 0
  \/ p.specialWeapon = Undefined

mapCoopPlayer(isMyself, p) ==
  [me |-> IF isMyself THEN "yes" ELSE "no",
   special |-> IF p.specialWeapon # Undefined
               THEN mapSpecial(p.specialWeapon).val ELSE Undefined,
   weapons |-> [i \in 1..Len(p.weapons) |-> mapCoopWeapon(p.weapons[i]).val],
   golden_eggs |-> p.goldenDeliverCount,
   power_eggs |-> p.deliverCount,
   rescue |-> p.rescueCount,
   rescued |-> p.rescuedCount,
   defeat_boss |-> p.defeatEnemyCount,
   disconnected |-> IF disconnected(p) THEN "yes" ELSE "no"]

\* mapCoop: the body, with the fields modelled here. memberResults is the
\* number of members; each of them has the result Member.
Member ==
  [goldenDeliverCount |-> 1, deliverCount |-> 1, rescueCount |-> 0,
   rescuedCount |-> 0, defeatEnemyCount |-> 1, specialWeapon |-> "known",
   weapons |-> <<[name |-> "Splattershot", random |-> FALSE]>>]
mapCoop(info) ==
  LET detail == info.detail
      waves == [i \in 1..Len(detail.waveResults) |->
                  mapWave(detail.waveResults[i])]
      num_players == 1 + detail.memberResults
  IN [called |-> TRUE,
      eggstra_work |-> IF detail.rule = "TEAM_CONTEST" THEN "yes" ELSE "no",
      big_run |-> IF detail.rule = "BIG_RUN" THEN "yes" ELSE "no",
      danger_rate |-> IF detail.rule = "TEAM_CONTEST" THEN NullNum
                      ELSE detail.dangerRate * 100,
      clear_waves |-> clearWaves(detail),
      fail_reason |-> failReason(detail),
      title_before |-> titleBefore(info).title,
      title_exp_before |-> titleBefore(info).exp,
      title_after |-> detail.afterGrade,
      title_exp_after |-> detail.afterGradePoint,
      waves |-> IF detail.rule = "TEAM_CONTEST"
                THEN fillDangerRate(<<>>, waves, num_players)
                ELSE waves,
      players |-> <<mapCoopPlayer(TRUE, detail.myResult)>>
                  \o [i \in 1..detail.memberResults |->
                        mapCoopPlayer(FALSE, Member)]]

\* The sessions mapCoop is applied to. Waves are numbered 1, 2, ... in
\* order; a wave is its quota and the eggs delivered (below 1.5 times the
\* quota, at 1.5 times, between, at twice the quota).
Rules == {"REGULAR", "BIG_RUN", "TEAM_CONTEST"}
QuotaDelivered == {<<2, 2>>, <<2, 3>>, <<2, 4>>, <<3, 4>>, <<3, 5>>}
WaveOf(i, qd) ==
  [waveNumber |-> i, deliverNorm |-> qd[1], teamDeliverCount |-> qd[2]]
WaveSeqs ==
  UNION {{[i \in 1..n |-> WaveOf(i, f[i])] : f \in [1..n -> QuotaDelivered]} :
           n \in 0..MaxWaveResults}
PlainWaveSeqs ==
  {[i \in 1..n |-> WaveOf(i, <<3, 4>>)] : n \in 0..MaxWaveResults}
NoGradeBefore == [present |-> FALSE, grade |-> Undefined, gradePoint |-> NullNum]

\* Sessions that vary the grades and the wave count.
TitleInputs ==
  [called : {TRUE},
   gradeBefore : {NoGradeBefore,
                  [present |-> TRUE, grade |-> "3", gradePoint |-> 100]},
   detail : [rule : Rules, resultWave : 0..3, waveResults : PlainWaveSeqs,
             afterGrade : {Undefined, "0", "1", "5", "8"},
             afterGradePoint : {NullNum, 0, 10, 20, 40, 50, 999},
             memberResults : {3}, dangerRate : {1}, myResult : {Member}]]

\* Sessions that vary the waves, the players and the danger rate.
WaveInputs ==
  [called : {TRUE},
   gradeBefore : {NoGradeBefore},
   detail : [rule : Rules, resultWave : {0}, waveResults : WaveSeqs,
             afterGrade : {"5"}, afterGradePoint : {100},
             memberResults : 0..3, dangerRate : {0, 2}, myResult : {Member}]]

\* Sessions that vary the player's own result.
PlayerInputs ==
  [called : {TRUE},
   gradeBefore : {NoGradeBefore},
   detail : [rule : {"REGULAR"}, resultWave : {0},
             waveResults : {[i \in 1..3 |-> WaveOf(i, <<3, 4>>)]},
             afterGrade : {"5"}, afterGradePoint : {100},
             memberResults : {1}, dangerRate : {1},
             myResult : CoopPlayerResults]]

InitCoop ==
  /\ coopIn \in TitleInputs \cup WaveInputs \cup PlayerInputs
  /\ coopOut = NoCall
  /\ CacheIdle
  /\ ExportIdle
  /\ DedupIdle
  /\ BattleIdle
  /\ WeaponMapIdle

\* mapCoop(coopIn) returns.
MapCoopReturn ==
  /\ ~coopOut.called
  /\ coopOut' = mapCoop(coopIn)
  /\ UNCHANGED coopIn

NextCoop == MapCoopReturn /\ UNCHANGED exceptCoop

SpecCoop == InitCoop /\ [][NextCoop]_vars

\* ----------------------------------------------------------------------
\* Claims about mapCoop
\* ----------------------------------------------------------------------

\* The delta table {0: -20, 1: -10, 2: 0, 3: +20}.
DeltaTable == {<<0, -20>>, <<1, -10>>, <<2, 0>>, <<3, 20>>}
HasDelta(cw) == \E e \in DeltaTable : e[1] = cw
DeltaOf(cw) == (CHOOSE e \in DeltaTable : e[1] = cw)[2]

\* mapCoop returned for a session without a pre-session grade snapshot whose
\* after-title, after-points and delta are all known.
Inferred ==
  /\ coopOut.called
  /\ ~coopIn.gradeBefore.present
  /\ coopOut.title_after # Undefined
  /\ coopOut.title_exp_after # NullNum
  /\ HasDelta(coopOut.clear_waves)

OneGradeBelow(before, after) ==
  \E n \in GradeNumbers : toString(n) = after /\ toString(n - 1) = before

\* Rule (d) of the title inference.
RuleD(delta) ==
  IF coopOut.title_exp_after - delta >= 0
  THEN /\ coopOut.title_before = coopOut.title_after
       /\ coopOut.title_exp_before = coopOut.title_exp_after - delta
  ELSE /\ OneGradeBelow(coopOut.title_before, coopOut.title_after)
       /\ coopOut.title_exp_before = NullNum

\* C7 as the spec states it: in rules (a), (b) and (c) the before-title is
\* the after-title, and "5" with 40 points after one cleared wave gives "5"
\* with 50 points.
C7_AsStated ==
  Inferred =>
    LET delta == DeltaOf(coopOut.clear_waves)
        after == coopOut.title_exp_after
    IN /\ IF \/ after = 999 /\ delta # 0
             \/ after = 40 /\ delta = 20
             \/ after = 40 /\ delta < 0 /\ coopOut.title_after # "8"
          THEN coopOut.title_before = coopOut.title_after
          ELSE RuleD(delta)
       /\ (coopOut.title_after = "5" /\ after = 40 /\ coopOut.clear_waves = 1)
            => coopOut.title_before = "5" /\ coopOut.title_exp_before = 50

\* C7, amended: without a snapshot, and with after-title, after-points and
\* delta known, (b) after-points 40 with delta +20 and (c) after-points 40
\* with a negative delta and an after-title other than "8" leave both the
\* before-title and the before-points unset; (a) after-points 999 with a
\* non-zero delta gives the after-title and no points; (d) otherwise the
\* after-title with after-points minus delta when that is not negative,
\* else one grade below with no points. "5" with 40 points after one
\* cleared wave gives no before-title and no before-points. With a
\* snapshot the before values are the snapshot's; with the after-title,
\* the after-points or the delta unknown they are unset.
C7_TitleBefore ==
  coopOut.called =>
    IF coopIn.gradeBefore.present
    THEN /\ coopOut.title_before = coopIn.gradeBefore.grade
         /\ coopOut.title_exp_before = coopIn.gradeBefore.gradePoint
    ELSE IF ~Inferred
    THEN coopOut.title_before = Undefined /\ coopOut.title_exp_before = NullNum
    ELSE LET delta == DeltaOf(coopOut.clear_waves)
             after == coopOut.title_exp_after
         IN IF \/ after = 40 /\ delta = 20
               \/ after = 40 /\ delta < 0 /\ coopOut.title_after # "8"
            THEN /\ coopOut.title_before = Undefined
                 /\ coopOut.title_exp_before = NullNum
            ELSE IF after = 999 /\ delta # 0
            THEN /\ coopOut.title_before = coopOut.title_after
                 /\ coopOut.title_exp_before = NullNum
            ELSE RuleD(delta)
\* The spec's example: "5", 40 points, one wave cleared, no snapshot.
C7_Witness ==
  /\ Inferred
  /\ coopOut.title_after = "5"
  /\ coopOut.title_exp_after = 40
  /\ coopOut.clear_waves = 1
  /\ coopOut.title_before = Undefined
  /\ coopOut.title_exp_before = NullNum

\* The increment of the danger rate by players, delivered and quota.
HighStep == <<10, 20, 40, 60>>
LowStep == <<5, 5, 20, 30>>
Increment(n, d, q) ==
  IF n \notin 1..4 THEN 0
  ELSE IF d >= 2 * q THEN HighStep[n]
  ELSE IF 2 * d >= 3 * q THEN LowStep[n]
  ELSE 0

\* C8: under TEAM_CONTEST the first wave's danger_rate is 60 and each later
\* wave's is the previous wave's plus the increment for the previous wave's
\* delivered count and quota and the number of players; under every other
\* rule each wave's danger_rate is null and the session's danger_rate is
\* the source value times 100.
C8_WaveDangerRate ==
  coopOut.called =>
    LET src == coopIn.detail.waveResults
        waves == coopOut.waves
    IN /\ Len(waves) = Len(src)
       /\ IF coopIn.detail.rule = "TEAM_CONTEST"
          THEN \A i \in 1..Len(waves) :
                 waves[i].danger_rate =
                   IF i = 1 THEN 60
                   ELSE waves[i - 1].danger_rate
                        + Increment(1 + coopIn.detail.memberResults,
                                    src[i - 1].teamDeliverCount,
                                    src[i - 1].deliverNorm)
          ELSE /\ \A i \in 1..Len(waves) : waves[i].danger_rate = NullNum
               /\ coopOut.danger_rate = coopIn.detail.dangerRate * 100
\* Four players, wave 1 delivered twice its quota, wave 2 one and a half
\* times: 60, 120, 150.
C8_Witness ==
  /\ coopOut.called
  /\ coopIn.detail.rule = "TEAM_CONTEST"
  /\ Len(coopOut.players) = 4
  /\ Len(coopOut.waves) = 3
  /\ coopOut.waves[1].danger_rate = 60
  /\ coopOut.waves[2].danger_rate = 120
  /\ coopOut.waves[3].danger_rate = 150

\* mapCoop returned for waves numbered [1, 2] with resultWave 3.
TwoWavesFailed ==
  /\ coopOut.called
  /\ Len(coopIn.detail.waveResults) = 2
  /\ coopIn.detail.waveResults[1].waveNumber = 1
  /\ coopIn.detail.waveResults[2].waveNumber = 2
  /\ coopIn.detail.resultWave = 3

\* C9 as the spec states it: waves [1, 2] with resultWave 3 give 2.
C9_AsStated == TwoWavesFailed => coopOut.clear_waves = 2

\* C9, amended: waves [1, 2] with resultWave 3 give clear_waves = 1.
C9_TwoWavesGiveOne == TwoWavesFailed => coopOut.clear_waves = 1
\* Such a session, mapped.
C9_Witness == TwoWavesFailed /\ coopOut.clear_waves = 1

\* The wave results of the session numbered at or below 5 (TEAM_CONTEST)
\* or 3 (any other rule).
CountedWaves ==
  {i \in 1..Len(coopIn.detail.waveResults) :
     coopIn.detail.waveResults[i].waveNumber
       <= (IF coopIn.detail.rule = "TEAM_CONTEST" THEN 5 ELSE 3)}

\* C12: clear_waves is the number of wave results numbered at or below
\* maxWaves (5 for TEAM_CONTEST, 3 otherwise) minus one, plus one if
\* resultWave is 0; with no wave results it is 0; waves [1, 2, 3] with
\* resultWave 0 give 3.
C12_ClearWaves ==
  coopOut.called =>
    /\ coopOut.clear_waves =
         IF Len(coopIn.detail.waveResults) = 0 THEN 0
         ELSE Cardinality(CountedWaves) - 1
              + (IF coopIn.detail.resultWave = 0 THEN 1 ELSE 0)
    /\ (/\ Len(coopIn.detail.waveResults) = 3
        /\ \A i \in 1..3 : coopIn.detail.waveResults[i].waveNumber = i
        /\ coopIn.detail.resultWave = 0) => coopOut.clear_waves = 3
\* A session with a wave numbered above maxWaves (the fourth wave of a
\* regular job, cleared): that wave is not counted, clear_waves is 3.
C12_Witness ==
  /\ coopOut.called
  /\ coopIn.detail.rule = "REGULAR"
  /\ Len(coopIn.detail.waveResults) = 4
  /\ coopIn.detail.waveResults[4].waveNumber = 4
  /\ coopIn.detail.resultWave = 0
  /\ coopOut.clear_waves = 3

\* The counts of the player's own result are all zero.
AllCountsZero ==
  /\ coopIn.detail.myResult.goldenDeliverCount = 0
  /\ coopIn.detail.myResult.deliverCount = 0
  /\ coopIn.detail.myResult.rescueCount = 0
  /\ coopIn.detail.myResult.rescuedCount = 0
  /\ coopIn.detail.myResult.defeatEnemyCount = 0
NoSpecialRecorded == coopIn.detail.myResult.specialWeapon = Undefined

\* C11 as the spec states it: the player is marked disconnected ("yes") if
\* and only if all five counts are zero and no special weapon was recorded;
\* with a non-zero count, or with a recorded special weapon, the mark is "no".
C11_AsStated ==
  coopOut.called =>
    (coopOut.players[1].disconnected = "yes"
       <=> (AllCountsZero /\ NoSpecialRecorded))

\* What mapCoopPlayer does: "yes" if and only if all five counts are zero or
\* no special weapon was recorded.
C11_EitherSignal ==
  coopOut.called =>
    /\ coopOut.players[1].disconnected \in {"yes", "no"}
    /\ coopOut.players[1].disconnected = "yes"
         <=> (AllCountsZero \/ NoSpecialRecorded)
\* A player with a non-zero count and no special weapon is marked "yes".
C11_Witness ==
  /\ coopOut.called
  /\ ~AllCountsZero
  /\ NoSpecialRecorded
  /\ coopOut.players[1].disconnected = "yes"

\* ======================================================================
\* StatInkExporter.mapBattle: team colors and the turf-war / tricolor block
\* ======================================================================

\* Opposing teams of one session.
MaxOtherTeams == 2

\* Number.prototype.toString(16) of 0..255 with padStart(2, "0"); a string
\* is written as the sequence of its characters.
HexDigits == <<"0", "1", "2", "3", "4", "5", "6", "7",
               "8", "9", "a", "b", "c", "d", "e", "f">>
float2hex(i) ==
  LET n == i * 255
  IN IF n < 16 THEN <<"0", HexDigits[n + 1]>>
     ELSE <<HexDigits[(n \div 16) + 1], HexDigits[(n % 16) + 1]>>

\* mapColor: r, g, b, a in that order. The channels here are 0 or 1.
mapColor(color) ==
  float2hex(color.r) \o float2hex(color.g) \o float2hex(color.b)
    \o float2hex(color.a)

\* `x === "DEFENSE" ? "defender" : "attacker"'
mapRole(tricolorRole) ==
  IF tricolorRole = "DEFENSE" THEN "defender" ELSE "attacker"

\* `(team?.result?.paintRatio ?? 0) * 100'
percentOf(team) ==
  (IF team.paintRatio = NullNum THEN 0 ELSE team.paintRatio) * 100

\* `team.players.reduce((acc, i) => acc + i.paint, 0)'
RECURSIVE inkedOf(_)
inkedOf(paints) ==
  IF paints = <<>> THEN 0 ELSE Head(paints) + inkedOf(Tail(paints))

\* mapPlayer, as far as the teams' fields go.
mapPlayer(paints) ==
  [i \in 1..Len(paints) |-> [rank_in_team |-> i, inked |-> paints[i]]]

\* The fields of one team inside the turf-war / tricolor block.
NoTeamFields ==
  [players |-> <<>>, percent |-> NullNum, inked |-> NullNum,
   theme |-> Undefined, role |-> Undefined, set |-> FALSE]
teamFields(team) ==
  [players |-> mapPlayer(team.players),
   percent |-> percentOf(team),
   inked |-> inkedOf(team.players),
   theme |-> IF Truthy(team.festTeamName) THEN team.festTeamName
             ELSE Undefined,
   role |-> IF Truthy(team.tricolorRole) THEN mapRole(team.tricolorRole)
            ELSE Undefined,
   set |-> TRUE]

\* third_team_players, _percent, _inked, _theme and _role.
thirdTeamFieldsAnyRule(rule, otherTeams) ==
  IF Len(otherTeams) = 2 THEN teamFields(otherTeams[2]) ELSE NoTeamFields
thirdTeamFields(rule, otherTeams) ==
  IF (rule = "TURF_WAR" \/ rule = "TRI_COLOR") /\ Len(otherTeams) = 2
  THEN teamFields(otherTeams[2])
  ELSE NoTeamFields

\* third_team_color.
thirdTeamColor(rule, otherTeams) ==
  IF Len(otherTeams) = 2 THEN mapColor(otherTeams[2].color) ELSE <<>>

\* A rank label ("S+10", "A-") is the sequence of its characters; <<>> is
\* the empty string and also an absent label (both are falsy).
Digits == {"0", "1", "2", "3", "4", "5", "6", "7", "8", "9"}
digitValue(ch) ==
  CASE ch = "0" -> 0 [] ch = "1" -> 1 [] ch = "2" -> 2 [] ch = "3" -> 3
    [] ch = "4" -> 4 [] ch = "5" -> 5 [] ch = "6" -> 6 [] ch = "7" -> 7
    [] ch = "8" -> 8 [] ch = "9" -> 9
toLowerCase(str) ==
  [i \in 1..Len(str) |->
     CASE str[i] = "S" -> "s" [] str[i] = "A" -> "a" [] str[i] = "B" -> "b"
       [] str[i] = "C" -> "c" [] OTHER -> str[i]]
\* parseInt of a run of digits.
RECURSIVE parseDigits(_)
parseDigits(ds) ==
  IF ds = <<>> THEN 0
  ELSE 10 * parseDigits(SubSeq(ds, 1, Len(ds) - 1)) + digitValue(ds[Len(ds)])

\* parseUdemae: `udemae.split(/([0-9]+)/)' gives the text before the first
\* digit and, if there is one, the first run of digits.
parseUdemae(udemae) ==
  LET digitAt == {i \in 1..Len(udemae) : udemae[i] \in Digits}
      start == IF digitAt = {} THEN Len(udemae) + 1
               ELSE CHOOSE i \in digitAt : \A j \in digitAt : i <= j
      stop == CHOOSE k \in start..(Len(udemae) + 1) :
                /\ \A j \in start..(k - 1) : udemae[j] \in Digits
                /\ k = Len(udemae) + 1 \/ udemae[k] \notin Digits
  IN [rank |-> toLowerCase(SubSeq(udemae, 1, start - 1)),
      s_plus |-> IF digitAt = {} THEN NullNum
                 ELSE parseDigits(SubSeq(udemae, start, stop - 1))]

\* rank_before and rank_before_s_plus.
NoRank == [rank |-> <<>>, s_plus |-> NullNum]
rankBefore(vs) ==
  IF vs.listNodeUdemae # <<>> THEN parseUdemae(vs.listNodeUdemae) ELSE NoRank

\* rank_after and rank_after_s_plus: the challenge block, then the
\* rankState block.
rankAfterChallengeOnly(vs) ==
  IF vs.bankaraMatchChallenge.present /\ vs.challengeProgress.present
  THEN IF vs.challengeProgress.index = 0
          /\ vs.bankaraMatchChallenge.udemaeAfter # <<>>
       THEN parseUdemae(vs.bankaraMatchChallenge.udemaeAfter)
       ELSE rankBefore(vs)
  ELSE NoRank
rankAfter(vs) ==
  LET challenge ==
        IF vs.bankaraMatchChallenge.present /\ vs.challengeProgress.present
        THEN IF vs.challengeProgress.index = 0
                /\ vs.bankaraMatchChallenge.udemaeAfter # <<>>
             THEN parseUdemae(vs.bankaraMatchChallenge.udemaeAfter)
             ELSE rankBefore(vs)
        ELSE NoRank
  IN IF vs.rankBeforeState /\ vs.rankState.present /\ challenge.rank = <<>>
     THEN parseUdemae(vs.rankState.rank)
     ELSE challenge

\* mapBattle: the body with the teams' fields, or the error thrown. A field
\* never assigned is Undefined, NullNum (a number), or <<>> (a color, a
\* player list).
NoBattleBody ==
  [our_team_color |-> <<>>, their_team_color |-> <<>>,
   third_team_color |-> <<>>,
   our_team_percent |-> NullNum, their_team_percent |-> NullNum,
   our_team_inked |-> NullNum, their_team_inked |-> NullNum,
   our_team_theme |-> Undefined, our_team_role |-> Undefined,
   their_team_theme |-> Undefined, their_team_role |-> Undefined,
   third_team_players |-> <<>>, third_team_set |-> FALSE,
   third_team_percent |-> NullNum, third_team_inked |-> NullNum,
   third_team_theme |-> Undefined, third_team_role |-> Undefined,
   rank_before |-> <<>>, rank_before_s_plus |-> NullNum,
   rank_after |-> <<>>, rank_after_s_plus |-> NullNum]
mapBattle(vs) ==
  IF Len(vs.otherTeams) = 0
  THEN [called |-> TRUE, err |-> "Other teams is empty", body |-> NoBattleBody]
  ELSE
    LET turf == vs.rule = "TURF_WAR" \/ vs.rule = "TRI_COLOR"
        ours == IF turf THEN teamFields(vs.myTeam) ELSE NoTeamFields
        theirs == IF turf THEN teamFields(vs.otherTeams[1]) ELSE NoTeamFields
        third == thirdTeamFields(vs.rule, vs.otherTeams)
    IN [called |-> TRUE, err |-> "",
        body |->
          [our_team_color |-> mapColor(vs.myTeam.color),
           their_team_color |-> mapColor(vs.otherTeams[1].color),
           third_team_color |-> thirdTeamColor(vs.rule, vs.otherTeams),
           our_team_percent |-> ours.percent,
           their_team_percent |-> theirs.percent,
           our_team_inked |-> ours.inked,
           their_team_inked |-> theirs.inked,
           our_team_theme |-> ours.theme,
           our_team_role |-> ours.role,
           their_team_theme |-> theirs.theme,
           their_team_role |-> theirs.role,
           third_team_players |-> third.players,
           third_team_set |-> third.set,
           third_team_percent |-> third.percent,
           third_team_inked |-> third.inked,
           third_team_theme |-> third.theme,
           third_team_role |-> third.role,
           rank_before |-> rankBefore(vs).rank,
           rank_before_s_plus |-> rankBefore(vs).s_plus,
           rank_after |-> rankAfter(vs).rank,
           rank_after_s_plus |-> rankAfter(vs).s_plus]]

\* The sessions mapBattle is applied to.
VsRules == {"TURF_WAR", "TRI_COLOR", "AREA"}
Colors == {[r |-> 1, g |-> 0, b |-> 0, a |-> 1],
           [r |-> 0, g |-> 1, b |-> 1, a |-> 1]}
Teams ==
  [color : Colors, festTeamName : {"null", "Shiver"},
   tricolorRole : {"null", "ATTACK1", "DEFENSE"},
   paintRatio : {NullNum, 1}, players : {<<300, 250>>}]
MyTeams ==
  [color : {[r |-> 0, g |-> 0, b |-> 1, a |-> 1]},
   festTeamName : {"null", "Frye"}, tricolorRole : {"null", "DEFENSE"},
   paintRatio : {0}, players : {<<120>>}]
NoChallenge == [present |-> FALSE, udemaeAfter |-> <<>>]
NoProgress == [present |-> FALSE, index |-> 0]
NoRankState == [present |-> FALSE, rank |-> <<>>]
TeamInputs ==
  [called : {TRUE}, rule : VsRules, myTeam : MyTeams,
   otherTeams : UNION {[1..n -> Teams] : n \in 0..MaxOtherTeams},
   listNodeUdemae : {<<>>}, bankaraMatchChallenge : {NoChallenge},
   challengeProgress : {NoProgress}, rankBeforeState : {FALSE},
   rankState : {NoRankState}]

\* Sessions that vary the rank data: the label of the list node, the
\* challenge record with its after-label, the progress in the series, and
\* the two rank snapshots.
RankInputs ==
  [called : {TRUE}, rule : {"AREA"},
   myTeam : {[color |-> [r |-> 0, g |-> 0, b |-> 1, a |-> 1],
              festTeamName |-> "null", tricolorRole |-> "null",
              paintRatio |-> 0, players |-> <<120>>]},
   otherTeams : {<<[color |-> [r |-> 1, g |-> 0, b |-> 0, a |-> 1],
                    festTeamName |-> "null", tricolorRole |-> "null",
                    paintRatio |-> 1, players |-> <<300, 250>>]>>},
   listNodeUdemae : {<<>>, <<"A", "-">>, <<"S", "+", "1", "0">>},
   bankaraMatchChallenge :
     {NoChallenge} \cup
     [present : {TRUE},
      udemaeAfter : {<<>>, <<"S">>, <<"S", "+", "1", "1">>}],
   challengeProgress : {NoProgress} \cup [present : {TRUE}, index : 0..1],
   rankBeforeState : BOOLEAN,
   rankState : {NoRankState} \cup
               [present : {TRUE}, rank : {<<"B", "+">>, <<"S", "+", "2">>}]]

InitBattle ==
  /\ vsIn \in TeamInputs \cup RankInputs
  /\ vsOut = NoCall
  /\ CacheIdle
  /\ ExportIdle
  /\ DedupIdle
  /\ CoopIdle
  /\ WeaponMapIdle

\* mapBattle(vsIn) returns or throws.
MapBattleReturn ==
  /\ ~vsOut.called
  /\ vsOut' = mapBattle(vsIn)
  /\ UNCHANGED vsIn

NextBattle == MapBattleReturn /\ UNCHANGED exceptBattle

SpecBattle == InitBattle /\ [][NextBattle]_vars

\* ----------------------------------------------------------------------
\* Claims about mapBattle
\* ----------------------------------------------------------------------

\* mapBattle returned a body.
Mapped == vsOut.called /\ vsOut.err = ""

\* The third-team fields that are set in the body.
ThirdSet ==
  LET b == vsOut.body
  IN (IF b.third_team_color # <<>> THEN {"color"} ELSE {})
     \cup (IF b.third_team_set THEN {"players"} ELSE {})
     \cup (IF b.third_team_percent # NullNum THEN {"percent"} ELSE {})
     \cup (IF b.third_team_inked # NullNum THEN {"inked"} ELSE {})
     \cup (IF b.third_team_theme # Undefined THEN {"theme"} ELSE {})
     \cup (IF b.third_team_role # Undefined THEN {"role"} ELSE {})

TurfOrTricolor == vsIn.rule \in {"TURF_WAR", "TRI_COLOR"}

\* C10 as the spec states it: every third-team field, the color included,
\* is set only under TURF_WAR or TRI_COLOR with a second opposing team.
C10_AsStated ==
  Mapped =>
    /\ ThirdSet # {} => TurfOrTricolor /\ Len(vsIn.otherTeams) >= 2
    /\ (vsIn.rule = "TURF_WAR" /\ Len(vsIn.otherTeams) = 2)
         => {"players", "percent", "inked"} \subseteq ThirdSet
    /\ Len(vsIn.otherTeams) = 1 => ThirdSet = {}

\* C10, amended: third_team_color is set exactly when there are exactly two
\* opposing teams, whatever the rule; third_team_players, _percent, _inked,
\* _theme and _role are set only when the rule is TURF_WAR or TRI_COLOR and
\* there are exactly two opposing teams, and then players, percent and
\* inked are set, theme when the team has a fest name, role when it has a
\* tricolor role; one opposing team sets none of the six.
C10_ThirdTeam ==
  Mapped =>
    LET two == Len(vsIn.otherTeams) = 2
    IN /\ ("color" \in ThirdSet) <=> two
       /\ ThirdSet \ {"color"} # {} => TurfOrTricolor /\ two
       /\ (TurfOrTricolor /\ two) =>
            /\ {"players", "percent", "inked"} \subseteq ThirdSet
            /\ ("theme" \in ThirdSet)
                 <=> vsIn.otherTeams[2].festTeamName # "null"
            /\ ("role" \in ThirdSet)
                 <=> vsIn.otherTeams[2].tricolorRole # "null"
            /\ vsOut.body.third_team_inked = 550
            /\ vsOut.body.third_team_percent
                 = IF vsIn.otherTeams[2].paintRatio = 1 THEN 100 ELSE 0
       /\ Len(vsIn.otherTeams) = 1 => ThirdSet = {}
\* A ranked (AREA) session that carries two opposing teams: the color of
\* the third team is set, nothing else of it.
C10_Witness ==
  /\ Mapped
  /\ vsIn.rule = "AREA"
  /\ Len(vsIn.otherTeams) = 2
  /\ ThirdSet = {"color"}
  /\ vsOut.body.third_team_color = <<"0", "0", "f", "f", "f", "f", "f", "f">>

\* mapBattle had challenge data and series progress, the battle was the
\* first of its series and the challenge data has an after-label.
FirstOfSeries ==
  /\ vsIn.bankaraMatchChallenge.present
  /\ vsIn.challengeProgress.present
  /\ vsIn.challengeProgress.index = 0
  /\ vsIn.bankaraMatchChallenge.udemaeAfter # <<>>
RankAfterIs(r) ==
  /\ vsOut.body.rank_after = r.rank
  /\ vsOut.body.rank_after_s_plus = r.s_plus
Before ==
  [rank |-> vsOut.body.rank_before, s_plus |-> vsOut.body.rank_before_s_plus]
BothSnapshots == vsIn.rankBeforeState /\ vsIn.rankState.present

\* C15 as the spec states it: rank_after (with rank_after_s_plus) is the
\* parsed after-label for the first battle of a series with an after-label,
\* and equals rank_before (with rank_before_s_plus) in every other case.
C15_AsStated ==
  Mapped =>
    IF FirstOfSeries
    THEN RankAfterIs(parseUdemae(vsIn.bankaraMatchChallenge.udemaeAfter))
    ELSE RankAfterIs(Before)

\* C15, amended: the parsed after-label for the first battle of a series
\* with an after-label; else, with challenge data and series progress,
\* rank_before; else unset; and when that leaves rank_after empty and both
\* rank snapshots are given, the parsed rank of the snapshot taken after.
C15_RankAfter ==
  Mapped =>
    LET challenge ==
          IF FirstOfSeries
          THEN parseUdemae(vsIn.bankaraMatchChallenge.udemaeAfter)
          ELSE IF vsIn.bankaraMatchChallenge.present
                  /\ vsIn.challengeProgress.present
          THEN Before
          ELSE NoRank
    IN /\ (BothSnapshots /\ challenge.rank = <<>>)
            => RankAfterIs(parseUdemae(vsIn.rankState.rank))
       /\ ~(BothSnapshots /\ challenge.rank = <<>>) => RankAfterIs(challenge)
       /\ (FirstOfSeries
           /\ vsIn.bankaraMatchChallenge.udemaeAfter = <<"S", "+", "1", "1">>)
            => /\ vsOut.body.rank_after = <<"s", "+">>
               /\ vsOut.body.rank_after_s_plus = 11
\* A battle without challenge data, with both snapshots: rank_before comes
\* from the list node ("A-"), rank_after from the snapshot ("S+2").
C15_Witness ==
  /\ Mapped
  /\ ~vsIn.bankaraMatchChallenge.present
  /\ BothSnapshots
  /\ vsOut.body.rank_before = <<"a", "-">>
  /\ vsOut.body.rank_before_s_plus = NullNum
  /\ vsOut.body.rank_after = <<"s", "+">>
  /\ vsOut.body.rank_after_s_plus = 2

\* ======================================================================
\* StatInkAPI.getSalmonWeaponMap: the name index of the salmon weapons
\* ======================================================================

\* Entries of the salmon weapon table.
MaxWeapons == 2

\* `name.includes(STAT_INK_DOT)'
includes(name, ch) == \E i \in 1..Len(name) : name[i] = ch
\* `name.replaceAll(STAT_INK_DOT, SPLATNET_DOT)'
replaceAll(name, from, to) ==
  [i \in 1..Len(name) |-> IF name[i] = from THEN to ELSE name[i]]

_getAliasName(name) ==
  IF includes(name, STAT_INK_DOT)
  THEN <<name, replaceAll(name, STAT_INK_DOT, SPLATNET_DOT)>>
  ELSE <<name>>

\* `Object.values(weapon.name).flatMap((n) => this._getAliasName(n))'
RECURSIVE flatMapAlias(_)
flatMapAlias(names) ==
  IF names = <<>> THEN <<>>
  ELSE _getAliasName(Head(names)) \o flatMapAlias(Tail(names))

\* `this._salmonWeaponMap.size'
size(map) == Cardinality({n \in DOMAIN map : map[n] # Undefined})

\* `this._salmonWeaponMap.set(name, weapon.key)'
setKeepFirst(map, name, key) ==
  IF map[name] # Undefined THEN map ELSE [map EXCEPT ![name] = key]
set(map, name, key) == [map EXCEPT ![name] = key]

\* The inner loop, over the names of one weapon: st is the map and the
\* warnings so far.
RECURSIVE indexNames(_, _, _)
indexNames(st, names, key) ==
  IF names = <<>> THEN st
  ELSE LET name == Head(names)
           prevKey == st.map[name]
           warned == IF prevKey # Undefined /\ prevKey # key
                     THEN Append(st.warnings, name) ELSE st.warnings
       IN indexNames([map |-> set(st.map, name, key), warnings |-> warned],
                     Tail(names), key)

\* The outer loop, over the weapons of the table.
RECURSIVE indexWeapons(_, _)
indexWeapons(st, weapons) ==
  IF weapons = <<>> THEN st
  ELSE indexWeapons(
         indexNames(st, flatMapAlias(Head(weapons).name), Head(weapons).key),
         Tail(weapons))

\* The salmon weapon tables: each weapon has a key and its names by locale.
WeaponKeys == {"k1", "k2"}
Weapons ==
  [key : WeaponKeys,
   name : {<<<<"a">>>>, <<<<"b", SPLATNET_DOT, "c">>>>,
           <<<<"a">>, <<"b", STAT_INK_DOT, "c">>>>}]
Catalogs == UNION {[1..n -> Weapons] : n \in 0..MaxWeapons}

\* What the body of a GET for the salmon weapons decodes to: "tableA" is
\* the table stat.ink serves, "tableB" an empty array.
WeaponsOf(json) == IF json = "tableA" THEN catalog ELSE <<>>

SalmonWeaponUrl == "/api/v3/salmon/weapon?full=1"

InitWeaponMap ==
  /\ catalog \in Catalogs
  /\ salmonWeaponMap = [n \in DisplayNames |-> Undefined]
  /\ wpc = [p \in Callers |-> "idle"]
  /\ warnings = <<>>
  /\ builds = 0
  /\ CacheIdle
  /\ ExportIdle
  /\ DedupIdle
  /\ CoopIdle
  /\ BattleIdle

\* getSalmonWeaponMap() is called (by mapCoopWeapon): with a non-empty map
\* it returns it; else it runs up to `await this.getSalmonWeapon()', which
\* runs up to the acquire() of _getCached.
GetSalmonWeaponMap(p) ==
  /\ wpc[p] = "idle"
  /\ IF size(salmonWeaponMap) = 0
     THEN /\ GetCached(p, SalmonWeaponUrl)
          /\ wpc' = [wpc EXCEPT ![p] = "getSalmonWeapon"]
     ELSE /\ wpc' = [wpc EXCEPT ![p] = "returned"]
          /\ UNCHANGED cacheVars
  /\ UNCHANGED <<catalog, salmonWeaponMap, warnings, builds>>

\* getSalmonWeapon() threw: the error propagates.
GetSalmonWeaponThrew(p) ==
  /\ wpc[p] = "getSalmonWeapon"
  /\ pc[p] = "thrown"
  /\ Settle(p)
  /\ wpc' = [wpc EXCEPT ![p] = "thrown"]
  /\ UNCHANGED <<catalog, salmonWeaponMap, warnings, builds>>

\* getSalmonWeapon() returned the table: the loop runs over it, then the
\* map is returned, or the Error is thrown when it is still empty.
BuildMap(p) ==
  /\ wpc[p] = "getSalmonWeapon"
  /\ pc[p] = "returned"
  /\ LET st == indexWeapons([map |-> salmonWeaponMap, warnings |-> warnings],
                            WeaponsOf(ret[p]))
     IN /\ salmonWeaponMap' = st.map
        /\ warnings' = st.warnings
        /\ wpc' = [wpc EXCEPT ![p] = IF size(st.map) = 0 THEN "thrown"
                                     ELSE "returned"]
  /\ builds' = builds + 1
  /\ Settle(p)
  /\ UNCHANGED catalog

\* The caller of getSalmonWeaponMap goes on with the map or the error.
Resume(p) ==
  /\ wpc[p] \in {"returned", "thrown"}
  /\ wpc' = [wpc EXCEPT ![p] = "idle"]
  /\ UNCHANGED <<catalog, salmonWeaponMap, warnings, builds, cacheVars>>

NextWeaponMap ==
  \/ \E p \in Callers : GetSalmonWeaponMap(p) /\ UNCHANGED exceptWeapon
  \/ \E p \in Callers : Enter(p) /\ UNCHANGED exceptCache
  \/ \E p \in Callers, s \in {200, 404}, j \in Tables :
       FetchGet(p, s, j) /\ UNCHANGED exceptCache
  \/ \E p \in Callers : Finish(p) /\ UNCHANGED exceptCache
  \/ \E p \in Callers : GetSalmonWeaponThrew(p) /\ UNCHANGED exceptWeapon
  \/ \E p \in Callers : BuildMap(p) /\ UNCHANGED exceptWeapon
  \/ \E p \in Callers : Resume(p) /\ UNCHANGED exceptWeapon

SpecWeaponMap == InitWeaponMap /\ [][NextWeaponMap]_vars

\* ----------------------------------------------------------------------
\* Claims about the salmon weapon name index
\* ----------------------------------------------------------------------

\* The table the index was built from: the one _getCached stored.
Indexed == WeaponsOf(cache[SalmonWeaponUrl])
\* The entries of that table that carry the name n, itself or as the alias
\* of one of their names.
Holders(n) ==
  {i \in 1..Len(Indexed) :
     \E j \in 1..Len(Indexed[i].name) :
       \E k \in 1..Len(_getAliasName(Indexed[i].name[j])) :
         _getAliasName(Indexed[i].name[j])[k] = n}
Collides(n) ==
  \E i, j \in Holders(n) : Indexed[i].key # Indexed[j].key
First(S) == CHOOSE i \in S : \A j \in S : i <= j
Last(S) == CHOOSE i \in S : \A j \in S : j <= i
Warned(n) == \E i \in 1..Len(warnings) : warnings[i] = n

\* C13 as the spec states it: a name carried by two entries with different
\* keys is warned about, and the index keeps the key of the entry seen
\* first.
C13_AsStated ==
  builds >= 1 =>
    \A n \in DisplayNames :
      Collides(n) =>
        /\ Warned(n)
        /\ salmonWeaponMap[n] = Indexed[First(Holders(n))].key

\* A build ends in the Error only when the table has no entry.
C13_Step ==
  \A p \in Callers :
    (wpc[p] = "getSalmonWeapon" /\ wpc'[p] = "thrown" /\ builds' = builds + 1)
      => Len(WeaponsOf(ret[p])) = 0

\* C13, amended: a name (or dot alias) carried by two entries with
\* different keys is warned about, the build goes on without error and
\* indexes every name of the table, and each name keeps the key of the entry
\* seen last.
C13_LastWriterWins ==
  /\ [](builds >= 1 =>
          \A n \in DisplayNames :
            /\ Collides(n) => Warned(n)
            /\ Warned(n) => Collides(n)
            /\ salmonWeaponMap[n] =
                 IF Holders(n) = {} THEN Undefined
                 ELSE Indexed[Last(Holders(n))].key)
  /\ [][C13_Step]_vars
\* The index built from a table whose first entry carries a name through
\* its dot alias and whose second entry carries it directly, under another
\* key: one warning, the second key is kept.
C13_Witness ==
  /\ builds = 1
  /\ catalog = <<[key |-> "k1",
                  name |-> <<<<"a">>, <<"b", STAT_INK_DOT, "c">>>>],
                 [key |-> "k2", name |-> <<<<"b", SPLATNET_DOT, "c">>>>]>>
  /\ Indexed = catalog
  /\ warnings = <<<<"b", SPLATNET_DOT, "c">>>>
  /\ salmonWeaponMap[<<"b", SPLATNET_DOT, "c">>] = "k2"
  /\ salmonWeaponMap[<<"b", STAT_INK_DOT, "c">>] = "k1"
  /\ salmonWeaponMap[<<"a">>] = "k1"
  /\ \E p \in Callers : wpc[p] = "returned"

\* C14: for one client the loop that populates the index from the table
\* runs at most one time, whatever the interleaving of the concurrent
\* getSalmonWeaponMap calls.
C14_BuiltOnce == builds <= 1

====
